---- MODULE Spec2Model ----
(***************************************************************************)
(* Model of the Python scripts of karpenter-provider-aws:                  *)
(*   website/content/main.py          the documentation link auditor       *)
(*   .github/scripts/parse-redirects.py   the _redirects to JSON converter *)
(*                                                                         *)
(* Byte strings and text are sequences of one-character strings.  Python   *)
(* values a function returns are written as their repr ("False", "None").  *)
(***************************************************************************)
EXTENDS Integers, Sequences, FiniteSets, TLC

VARIABLES
    \* ---- website/content/main.py, searchdirectory ----
    tree,       \* the regular files os.walk yields, flattened in walk order
    idx,        \* number of files the for loops have finished
    pc,         \* "walk" | "scan" | "done" | "failed"
    results,    \* what is left of the re.finditer iterator (the groups)
    report,     \* the rows of some.csv
    opens,      \* how many times open('some.csv', 'w') has been executed
    handles,    \* how many handles on some.csv are open
    stdout,     \* what print() has written
    raised,     \* the exception that left the loop body, "None" if none
    exitcode,   \* the interpreter's exit status, -1 while running
    \* ---- pure functions applied to one argument ----
    arg, ret, called,
    \* ---- .github/scripts/parse-redirects.py, main ----
    r_exists,   \* os.path.exists(redirects_file)
    r_lines,    \* the lines enumerate(f, 1) has yielded so far
    rules,      \* the list rules
    r_pc,       \* "start" | "read" | "exit"
    r_stdout,   \* what was printed to sys.stdout
    r_stderr,   \* what was printed to sys.stderr
    r_exit      \* the exit status, -1 while running

runVars == <<tree, idx, pc, results, report, opens, handles, stdout, raised, exitcode>>
fnVars == <<arg, ret, called>>
redirVars == <<r_exists, r_lines, rules, r_pc, r_stdout, r_stderr, r_exit>>
vars == <<runVars, fnVars, redirVars>>

\* ------------------------------------------------------------------ bounds
MaxDocs == 2
MaxPieces == 3
MaxPathLen == 4
MaxLines == 2
MaxLineLen == 3

\* ----------------------------------------------------------------- helpers
Max(S) == CHOOSE x \in S : \A y \in S : y <= x
Min(S) == CHOOSE x \in S : \A y \in S : x <= y
Strings(Alphabet, n) == UNION {[1..k -> Alphabet] : k \in 0..n}
StartsWith(s, p) == Len(s) >= Len(p) /\ SubSeq(s, 1, Len(p)) = p
IsPrefix(s, t) == Len(s) <= Len(t) /\ SubSeq(t, 1, Len(s)) = s

\* The byte 0xFF: not whitespace, and not decodable as UTF-8.
XFF == "\\xff"
\* What \s matches in a bytes pattern, and what str.strip()/split() drop.
Whitespace == {" ", "\t", "\n", "\r", "\f"}

\* ------------------------------------------------- main.py: SearchRegex
\* br'\]\((\S+)\)' tried at position i: "](", then the greedy \S+ takes the
\* whole run of non-whitespace bytes and backtracks to the last ")" in it that
\* leaves the group at least one byte.  The position of that ")", or 0.
RunEnd(s, j) ==
    Max({j - 1} \cup {e \in j..Len(s) : \A k \in j..e : s[k] \notin Whitespace})

MatchEnd(s, i) ==
    IF i + 1 <= Len(s) /\ s[i] = "]" /\ s[i + 1] = "("
    THEN LET closers == {k \in (i + 3)..RunEnd(s, i + 2) : s[k] = ")"}
         IN  IF closers = {} THEN 0 ELSE Max(closers)
    ELSE 0

\* re.finditer(SearchRegex, s): the non-overlapping matches left to right,
\* each given by its group(1).
RECURSIVE FindIterFrom(_, _)
FindIterFrom(s, i) ==
    IF i > Len(s) THEN <<>>
    ELSE LET k == MatchEnd(s, i)
         IN  IF k > 0
             THEN <<SubSeq(s, i + 2, k - 1)>> \o FindIterFrom(s, k + 1)
             ELSE FindIterFrom(s, i + 1)

FindIter(s) == FindIterFrom(s, 1)

\* bytes.decode('utf-8'): raises UnicodeDecodeError on an invalid byte; on
\* ASCII bytes the text has the same characters.
Decodable(b) == \A k \in 1..Len(b) : b[k] # XFF
Decode(b) == [k \in 1..Len(b) |-> b[k]]

\* ------------------------------------------------- main.py: IsArchivedPath
\* re.match(r'v1', path) is anchored at the start of the path; the Match
\* object or None it returns is modelled by its truth value.
PathRegex == <<"v", "1">>
IsArchivedPath(path) == StartsWith(path, PathRegex)

\* ---------------------------------------------- main.py: DetermineLinkType
external == <<"h","t","t","p","s",":","/","/","n","o","t","k","a","p","e","r","n","e","r">>
relative == <<"s","t","a","r","t","/">>
absolute == <<"/","d","o","c","s","/">>

DetermineLinkType(link) ==
    IF StartsWith(link, external) THEN "external:"
    ELSE IF StartsWith(link, relative) THEN "relative"
    ELSE IF StartsWith(link, absolute) THEN "absolute"
    ELSE "False"

\* ------------------------------------------------ main.py: searchdirectory
\* The documents of the scenarios of the specification, and others.
ScenarioA == <<"[","x","]","(">> \o external \o <<"/","p","a","g","e",")">>
ScenarioB == <<"[","x","]","(">> \o relative \o <<"g","u","i","d","e",")">>
ScenarioC == <<"[","x","]","(">> \o absolute \o <<"i","n","t","r","o",")">>
ScenarioD == <<"[","x","]","(",".","/","f","o","o",")">>
NoLink == <<"a","b">>
TwoLinks == <<"]","(","a",")"," ","]","(","b",")">>
ThreeLinks == <<"]","(","a",")","\n","]","(","b",")"," ","]","(","c",")">>
Adjacent == <<"]","(","a",")","]","(","b",")">>
BadByte == <<"]","(","a",")"," ","]","(",XFF,")">>

Contents ==
    {<<>>, NoLink, ScenarioA, ScenarioB, ScenarioC, ScenarioD, TwoLinks,
     ThreeLinks, Adjacent, BadByte}

\* A file of the tree: whether open(currentpath, 'rb') succeeds, and its bytes.
\* The bytes of a file that cannot be opened play no part.
Documents ==
    {[readable |-> TRUE, content |-> c] : c \in Contents}
    \cup {[readable |-> FALSE, content |-> <<>>]}

Trees == UNION {[1..n -> Documents] : n \in 0..MaxDocs}

\* os.path.join(root, name) of the file being processed: its place in the walk.
currentpath == idx + 1

PureIdle == arg = <<>> /\ ret = "None" /\ called = FALSE
RedirIdle ==
    /\ r_exists = FALSE /\ r_lines = <<>> /\ rules = <<>> /\ r_pc = "idle"
    /\ r_stdout = <<>> /\ r_stderr = <<>> /\ r_exit = -1

Init ==
    /\ tree \in Trees
    /\ idx = 0
    /\ pc = "walk"
    /\ results = <<>>
    /\ report = <<>>
    /\ opens = 0
    /\ handles = 0
    /\ stdout = <<>>
    /\ raised = "None"
    /\ exitcode = -1
    /\ PureIdle
    /\ RedirIdle

\* Leaving the with statement closes f (then s and file): lines 36-38.
ExitWithLeak == handles' = handles
ExitWith == handles' = handles - 1

\* An exception leaves searchdirectory and, uncaught, ends the interpreter.
Raise(e) == pc' = "failed" /\ raised' = e /\ exitcode' = 1

\* Lines 33-42: the next file of the walk.  open(currentpath) fails on a file
\* that cannot be read, mmap fails on a file of length 0; otherwise some.csv
\* is opened with mode 'w' (created or truncated), the iterator is created, and
\* any(results) takes its first match, if it has one.
OpenDocument ==
    /\ pc = "walk"
    /\ idx < Len(tree)
    /\ LET d == tree[currentpath]
           found == FindIter(d.content)
       IN  IF ~d.readable
           THEN /\ Raise("PermissionError")
                /\ UNCHANGED <<results, report, opens, handles, stdout>>
           ELSE IF d.content = <<>>
           THEN /\ Raise("ValueError")
                /\ UNCHANGED <<results, report, opens, handles, stdout>>
           ELSE /\ report' = <<>>
                /\ opens' = opens + 1
                /\ handles' = handles + 1
                /\ results' = IF found = <<>> THEN <<>> ELSE Tail(found)
                /\ stdout' = IF found = <<>> THEN stdout
                             ELSE Append(stdout, currentpath)
                /\ pc' = "scan"
                /\ UNCHANGED <<raised, exitcode>>
    /\ UNCHANGED <<tree, idx, fnVars, redirVars>>

\* Lines 43-48: one iteration of "for result in results".  decode raises on a
\* target that is not UTF-8; the exception closes f on its way out (the mmap's
\* own exit then raises BufferError in its place: the status is 1 either way).
WriteRow ==
    /\ pc = "scan"
    /\ results # <<>>
    /\ LET group1 == Head(results)
           row == <<currentpath, Decode(group1)>>
       IN  IF Decodable(group1)
           THEN /\ report' = Append(report, row)
                /\ stdout' = Append(stdout, row)
                /\ results' = Tail(results)
                /\ UNCHANGED <<pc, raised, exitcode, handles>>
           ELSE /\ Raise("UnicodeDecodeError")
                /\ ExitWith
                /\ UNCHANGED <<report, stdout, results>>
    /\ UNCHANGED <<tree, idx, opens, fnVars, redirVars>>

\* Line 47 when the row cannot be stored (the disk is full): OSError.
WriteFails ==
    /\ pc = "scan"
    /\ results # <<>>
    /\ Decodable(Head(results))
    /\ Raise("OSError")
    /\ ExitWith
    /\ UNCHANGED <<tree, idx, results, report, opens, stdout, fnVars, redirVars>>

\* The iterator is exhausted: the with block ends and the loop goes on.
CloseDocument ==
    /\ pc = "scan"
    /\ results = <<>>
    /\ ExitWith
    /\ idx' = idx + 1
    /\ pc' = "walk"
    /\ UNCHANGED <<tree, results, report, opens, stdout, raised, exitcode,
                   fnVars, redirVars>>

\* os.walk is exhausted: searchdirectory returns and the script ends.
Finish ==
    /\ pc = "walk"
    /\ idx = Len(tree)
    /\ pc' = "done"
    /\ exitcode' = 0
    /\ UNCHANGED <<tree, idx, results, report, opens, handles, stdout, raised,
                   fnVars, redirVars>>

Next == OpenDocument \/ WriteRow \/ WriteFails \/ CloseDocument \/ Finish

Spec == Init /\ [][Next]_vars

RunIdle ==
    /\ tree = <<>> /\ idx = 0 /\ pc = "idle" /\ results = <<>> /\ report = <<>>
    /\ opens = 0 /\ handles = 0 /\ stdout = <<>> /\ raised = "None"
    /\ exitcode = -1

\* ------------------------------------- the pure functions, one call of each
\* A content is a concatenation of pieces: links, whitespace and plain text.
LinkPieces == {<<"[","x","]","(","a",")">>, <<"[","y","]","(","b","/","c",")">>}
Pieces == LinkPieces \cup {<<" ">>, <<"\n">>, <<"t">>}

RECURSIVE Flatten(_)
Flatten(ps) == IF ps = <<>> THEN <<>> ELSE Head(ps) \o Flatten(Tail(ps))

InitExtract ==
    /\ arg \in Strings(Pieces, MaxPieces)
    /\ ret = "None" /\ called = FALSE
    /\ RunIdle /\ RedirIdle

\* Line 40: re.finditer(SearchRegex, s) on the bytes of the content, read to
\* its end.
Extract ==
    /\ ~called
    /\ ret' = FindIter(Flatten(arg))
    /\ called' = TRUE
    /\ UNCHANGED <<arg, runVars, redirVars>>

SpecExtract == InitExtract /\ [][Extract]_vars

\* Link targets: every prefix of a target of each kind, followed by nothing or
\* by one of the three markers.
TargetBases ==
    {SubSeq(ScenarioA, 5, Len(ScenarioA) - 1), SubSeq(ScenarioB, 5, Len(ScenarioB) - 1),
     SubSeq(ScenarioC, 5, Len(ScenarioC) - 1), SubSeq(ScenarioD, 5, Len(ScenarioD) - 1)}
Targets ==
    UNION {{SubSeq(b, 1, n) \o s : n \in 0..Len(b),
                                   s \in {<<>>, external, relative, absolute}} :
           b \in TargetBases}

InitLinkType ==
    /\ arg \in Targets
    /\ ret = "None" /\ called = FALSE
    /\ RunIdle /\ RedirIdle

Classify ==
    /\ ~called
    /\ ret' = DetermineLinkType(arg)
    /\ called' = TRUE
    /\ UNCHANGED <<arg, runVars, redirVars>>

SpecLinkType == InitLinkType /\ [][Classify]_vars

PathAlphabet == {"v", "1", "/", "e"}

InitArchived ==
    /\ arg \in Strings(PathAlphabet, MaxPathLen)
    /\ ret = "None" /\ called = FALSE
    /\ RunIdle /\ RedirIdle

Archive ==
    /\ ~called
    /\ ret' = IsArchivedPath(arg)
    /\ called' = TRUE
    /\ UNCHANGED <<arg, runVars, redirVars>>

SpecArchived == InitArchived /\ [][Archive]_vars

\* ------------------------------------------ parse-redirects.py: main
LineAlphabet == {"a", " ", "#"}
\* A line of the file as iteration over f yields it, its line end included.
\* Every short line, and three longer ones: three fields, tabs, no line end.
LongLines ==
    {<<"a", " ", "#", " ", "a", "\n">>, <<"\t", "a", "\t", "a", "#", " ", "\r", "\n">>,
     <<" ", "#", "a", " ", "a", " ", "a">>}
Lines == {body \o <<"\n">> : body \in Strings(LineAlphabet, MaxLineLen)} \cup LongLines

\* str.strip(): without its leading and trailing whitespace.
Strip(s) ==
    LET kept == {i \in 1..Len(s) : s[i] \notin Whitespace}
    IN  IF kept = {} THEN <<>> ELSE SubSeq(s, Min(kept), Max(kept))

\* str.split(): the runs of non-whitespace characters, in order.
RECURSIVE Split(_)
Split(s) ==
    IF s = <<>> THEN <<>>
    ELSE IF Head(s) \in Whitespace THEN Split(Tail(s))
    ELSE LET stops == {i \in 1..Len(s) : s[i] \in Whitespace}
             e == IF stops = {} THEN Len(s) ELSE Min(stops) - 1
         IN  <<SubSeq(s, 1, e)>> \o Split(SubSeq(s, e + 1, Len(s)))

\* Line 20, on the stripped line: "not line or line.startswith('#')".
SkippedOnlyEmpty(line) == line = <<>>
Skipped(line) == line = <<>> \/ Head(line) = "#"

InitRedirects ==
    /\ r_exists \in BOOLEAN
    /\ r_lines = <<>>
    /\ rules = <<>>
    /\ r_pc = "start"
    /\ r_stdout = <<>>
    /\ r_stderr = <<>>
    /\ r_exit = -1
    /\ RunIdle /\ PureIdle

\* sys.exit(1) after a message on sys.stderr.  SystemExit is no Exception: the
\* except clause of line 32 lets it through.
ExitWithError(message) ==
    /\ r_stderr' = Append(r_stderr, message)
    /\ r_exit' = 1
    /\ r_pc' = "exit"

\* Lines 10-14.
CheckExists ==
    /\ r_pc = "start"
    /\ IF r_exists
       THEN r_pc' = "read" /\ UNCHANGED <<r_stderr, r_exit>>
       ELSE ExitWithError("not found")
    /\ UNCHANGED <<r_exists, r_lines, rules, r_stdout, runVars, fnVars>>

\* Lines 17-31: the file yields its next line, and the loop body handles it.
ReadLine ==
    /\ r_pc = "read"
    /\ Len(r_lines) < MaxLines
    /\ \E read \in Lines :
         LET line == Strip(read)
             parts == Split(line)
         IN  /\ r_lines' = Append(r_lines, read)
             /\ IF Skipped(line)
                THEN UNCHANGED <<rules, r_pc, r_stderr, r_exit>>
                ELSE IF Len(parts) = 2
                THEN /\ rules' = Append(rules, [source |-> parts[1],
                                                target |-> parts[2],
                                                status |-> "301"])
                     /\ UNCHANGED <<r_pc, r_stderr, r_exit>>
                ELSE /\ ExitWithError("Invalid redirect format")
                     /\ UNCHANGED rules
    /\ UNCHANGED <<r_exists, r_stdout, runVars, fnVars>>

\* Lines 16-17 and 32-34: open() or the reading of a line raises (the file may
\* not be read, or holds bytes that are no text in the locale's encoding).
ReadFails ==
    /\ r_pc = "read"
    /\ ExitWithError("Error reading")
    /\ UNCHANGED <<r_exists, r_lines, rules, r_stdout, runVars, fnVars>>

\* Line 36, at the end of the file: print(json.dumps(rules)); main returns.
PrintRules ==
    /\ r_pc = "read"
    /\ r_stdout' = Append(r_stdout, rules)
    /\ r_exit' = 0
    /\ r_pc' = "exit"
    /\ UNCHANGED <<r_exists, r_lines, rules, r_stderr, runVars, fnVars>>

NextRedirects == CheckExists \/ ReadLine \/ ReadFails \/ PrintRules

SpecRedirects == InitRedirects /\ [][NextRedirects]_vars

\* ================================================================ claims on
\* searchdirectory (specification Spec)

RECURSIVE TotalMatches(_, _)
TotalMatches(t, n) ==
    IF n = 0 THEN 0
    ELSE TotalMatches(t, n - 1)
         + (IF t[n].readable THEN Len(FindIter(t[n].content)) ELSE 0)

\* C1: after a complete run the report holds exactly one row per link match
\* found in the documents of the tree (no row when there is none).
C1_RowPerOccurrence == pc = "done" => Len(report) = TotalMatches(tree, Len(tree))

\* C2: the report is opened once per run and is append-only: the rows recorded
\* at one step are a prefix of the rows at every later step.
C2_AppendOnly == [][IsPrefix(report, report') /\ opens' <= 1]_vars

\* C3: a document that cannot be opened is skipped; the run does not abort
\* at it.
C3_SkipUnreadable == ~(pc = "failed" /\ raised = "PermissionError")

\* The category the specification's ordered prefix rules give a target.
Category(target) ==
    CASE StartsWith(target, external) -> "external"
      [] ~StartsWith(target, external) /\ StartsWith(target, relative) -> "relative"
      [] ~StartsWith(target, external) /\ ~StartsWith(target, relative)
         /\ StartsWith(target, absolute) -> "absolute"
      [] OTHER -> "unrecognized"

OnlyDocument(c) == tree = <<[readable |-> TRUE, content |-> c]>>
OneRow(inner, category) ==
    report = <<<<1, SubSeq(inner, 5, Len(inner) - 1), category>>>>

\* C6: every row is source_path, target, category, the category being the
\* classification of the row's target; the documents of scenarios A to D
\* each give one row, tagged external, relative, absolute, unrecognized.
C6_RowsTagged ==
    /\ \A k \in 1..Len(report) :
          /\ Len(report[k]) = 3
          /\ report[k][3] = Category(report[k][2])
    /\ pc = "done" /\ OnlyDocument(ScenarioA) => OneRow(ScenarioA, "external")
    /\ pc = "done" /\ OnlyDocument(ScenarioB) => OneRow(ScenarioB, "relative")
    /\ pc = "done" /\ OnlyDocument(ScenarioC) => OneRow(ScenarioC, "absolute")
    /\ pc = "done" /\ OnlyDocument(ScenarioD) => OneRow(ScenarioD, "unrecognized")

\* C8: a readable document without any link match, a document of zero bytes
\* included, never makes the run fail.
C8_ZeroMatchNotError ==
    ~(/\ pc = "failed"
      /\ tree[currentpath].readable
      /\ FindIter(tree[currentpath].content) = <<>>)

\* C9: a handle on the report is open whenever a row is written, and none is
\* open when the run has ended, whether it returned or raised.
C9_NoHandleLeft ==
    /\ pc \in {"done", "failed"} => handles = 0
    /\ pc = "scan" => handles = 1
    /\ report # <<>> => opens >= 1

\* The run ended by an exception raised inside the with block, after the
\* report had been opened.
C9_Witness ==
    /\ pc = "failed"
    /\ raised \in {"UnicodeDecodeError", "OSError"}
    /\ opens >= 1
    /\ handles = 0

\* ================================================================ claims on
\* the pure functions

\* The targets of the links a content is made of, in order of appearance: in
\* "[x](a)" the occurrence of the shape ](target) is "](a)" and the target "a".
LinkTarget(piece) == SubSeq(piece, 5, Len(piece) - 1)
Occurrences(ps) ==
    LET links == SelectSeq(ps, LAMBDA q : q \in LinkPieces)
    IN  [k \in 1..Len(links) |-> LinkTarget(links[k])]

\* C4: extraction yields the targets of the N occurrences of ](target) of the
\* content, each only the parenthesized text, in order of appearance, also when
\* occurrences are adjacent.
C4_ExtractsEveryOccurrence == called => ret = Occurrences(arg)

\* C5: DetermineLinkType returns one of external, relative, absolute,
\* unrecognized: the first of the ordered prefix rules that matches, and
\* unrecognized when none does.
C5_TotalOrderedClassification ==
    called => /\ ret \in {"external", "relative", "absolute", "unrecognized"}
              /\ ret = Category(arg)

\* Whether a segment of the path (between "/"s) is v1.
HasV1Segment(path) ==
    \E i \in 1..(Len(path) - 1) :
        /\ SubSeq(path, i, i + 1) = <<"v", "1">>
        /\ (i = 1 \/ path[i - 1] = "/")
        /\ (i + 1 = Len(path) \/ path[i + 2] = "/")

\* C7: IsArchivedPath is true of exactly the paths that have a v1 segment,
\* wherever in the path it is.
C7_ArchivedIffV1Segment == called => (ret <=> HasV1Segment(arg))

\* ================================================================ claims on
\* parse-redirects.py (specification SpecRedirects)

\* The whitespace-separated fields of a line, by the places they start at.
FieldStarts(l) ==
    {i \in 1..Len(l) : l[i] \notin Whitespace /\ (i = 1 \/ l[i - 1] \in Whitespace)}
FieldAt(l, i) ==
    SubSeq(l, i, Max({e \in i..Len(l) : \A k \in i..e : l[k] \notin Whitespace}))
Blank(l) == FieldStarts(l) = {}
Comment(l) == ~Blank(l) /\ l[Min(FieldStarts(l))] = "#"
Relevant(l) == ~Blank(l) /\ ~Comment(l)
TwoFields(l) == Cardinality(FieldStarts(l)) = 2
RuleOf(l) ==
    [source |-> FieldAt(l, Min(FieldStarts(l))),
     target |-> FieldAt(l, Max(FieldStarts(l))),
     status |-> "301"]
ExpectedRules(ls) ==
    LET rel == SelectSeq(ls, Relevant)
    IN  [k \in 1..Len(rel) |-> RuleOf(rel[k])]
SomeBadLine == \E k \in 1..Len(r_lines) : Relevant(r_lines[k]) /\ ~TwoFields(r_lines[k])

Printed ==
    /\ r_exit = 0
    /\ ~SomeBadLine
    /\ r_stdout = <<ExpectedRules(r_lines)>>

\* C10 as stated: the script either prints the one list of rules, one per
\* non-blank, non-comment line, all of them of two fields, or exits with
\* status 1 without output because the file is missing or a line is malformed.
C10_AllOrNothing ==
    /\ r_pc # "exit" => r_stdout = <<>>
    /\ r_pc = "exit" =>
         \/ Printed
         \/ /\ r_exit = 1
            /\ r_stdout = <<>>
            /\ (~r_exists \/ SomeBadLine)

\* C10 amended: status 1 without output also when the file exists and cannot
\* be opened or read.
C10_AllOrNothingOrUnreadable ==
    /\ r_pc # "exit" => r_stdout = <<>>
    /\ r_pc = "exit" =>
         \/ Printed
         \/ /\ r_exit = 1
            /\ r_stdout = <<>>
            /\ \/ ~r_exists
               \/ SomeBadLine
               \/ r_exists /\ r_stderr = <<"Error reading">>

\* A file with a comment or blank line and a rule was converted.
C10_Witness ==
    /\ r_pc = "exit"
    /\ r_exit = 0
    /\ Len(rules) >= 1
    /\ Len(rules) < Len(r_lines)

====
